---- MODULE Spec2Model ----
(***************************************************************************)
(* A model of src/vocab.py: the Vocab index (construction, defaultdict     *)
(* lookups, extend), the Vectors/GloVe loader with its cache artifact, and *)
(* the module-level neighbour search, weighted aggregation and neighbour   *)
(* intersection.                                                           *)
(*                                                                         *)
(* Python lists are sequences (1-based here, 0-based in the code: the      *)
(* indices stored in stoi keep the code's 0-based values).  dicts are      *)
(* functions whose DOMAIN is the key set.  The specifications share the    *)
(* variables: SpecVocab and SpecVocabDistinct (class Vocab), SpecLoad      *)
(* (class Vectors / GloVe) and SpecSearch (closest and the script).        *)
(***************************************************************************)
EXTENDS Integers, Sequences, FiniteSets, TLC

VARIABLES
    counter,      \* Vocab.__init__ argument `counter` as passed by the caller
    max_size,     \* Vocab.__init__ argument (None or an integer)
    min_freq,     \* Vocab.__init__ argument
    specials,     \* Vocab.__init__ argument
    itos,         \* Vocab.itos
    stoi,         \* Vocab.stoi, a defaultdict(_default_unk_index)
    nExtend,      \* number of Vocab.extend calls made so far
    files,        \* the file system: source file name -> lines, or None
    artifacts,    \* the file system: <<cache dir, name>> -> saved tuple, or None
    glove,        \* the Vectors instance last constructed, or None
    outcome,      \* what the last Vectors construction did
    result,       \* value returned by the last call of closest
    script        \* what the script of lines 331-352 computed

vars == <<counter, max_size, min_freq, specials, itos, stoi, nExtend,
          files, artifacts, glove, outcome, result, script>>

vocabVars == <<counter, max_size, min_freq, specials, itos, stoi, nExtend>>
loadVars == <<files, artifacts, outcome>>
searchVars == <<result, script>>

\* Python's None, and an optional value x that is set, as sequences.
None == <<>>

Some(x) == <<x>>

(***************************************************************************)
(* Generic helpers.                                                        *)
(***************************************************************************)
Range(s) == {s[i] : i \in 1..Len(s)}

Front(s) == SubSeq(s, 1, Len(s) - 1)

Last(s) == s[Len(s)]

Min(a, b) == IF a < b THEN a ELSE b

Max(a, b) == IF a > b THEN a ELSE b

\* s.count(x)
Count(s, x) == Cardinality({i \in 1..Len(s) : s[i] = x})

\* All sequences over S of length lo..hi.
SeqsOf(S, lo, hi) == UNION {[1..n -> S] : n \in lo..hi}

\* Python's order on the strings used here (code point order).
LexRank ==
    [t \in {"<pad>", "<unk>", "A", "a", "b", "c", "d", "zz"} |->
        CASE t = "<pad>" -> 1
          [] t = "<unk>" -> 2
          [] t = "A" -> 3
          [] t = "a" -> 4
          [] t = "b" -> 5
          [] t = "c" -> 6
          [] t = "d" -> 7
          [] t = "zz" -> 8]

\* Insertion of x behind every element whose key is <= key(x): one step of a
\* stable ascending sort.  Keys are given by the function key.
RECURSIVE InsertAsc(_, _, _)
InsertAsc(s, x, key) ==
    IF s = <<>> THEN <<x>>
    ELSE IF key[Head(s)] <= key[x] THEN <<Head(s)>> \o InsertAsc(Tail(s), x, key)
    ELSE <<x>> \o s

\* sorted(s) for a list of strings (stable, ascending).
RECURSIVE SortedTokens(_)
SortedTokens(s) ==
    IF s = <<>> THEN <<>>
    ELSE InsertAsc(SortedTokens(Front(s)), Last(s), LexRank)

(***************************************************************************)
(* class Vocab                                                             *)
(***************************************************************************)
UNK == "<unk>"

\* _default_unk_index()
DefaultUnkIndex == 0

\* ['<unk>'] + specials
Prefix(sp) == <<UNK>> \o sp

\* counter.update(tokens): every occurrence adds one; a new key starts at 0.
CounterUpdate(c, toks) ==
    [t \in DOMAIN c \cup Range(toks) |->
        (IF t \in DOMAIN c THEN c[t] ELSE 0) + Count(toks, t)]

\* counter.subtract({tok: counter[tok] for tok in tokens})
CounterSubtractOwn(c, toks) ==
    [t \in DOMAIN c |-> IF t \in Range(toks) THEN c[t] - c[t] ELSE c[t]]

\* sorted(counter.items(), key=lambda tup: tup[0]): pairs <<word, freq>>.
RECURSIVE ItemsByWord(_, _)
ItemsByWord(c, keys) ==
    IF keys = {} THEN <<>>
    ELSE LET w == CHOOSE x \in keys : \A y \in keys : LexRank[x] <= LexRank[y]
         IN  <<(<<w, c[w]>>)>> \o ItemsByWord(c, keys \ {w})

\* A sort that is not stable: p overtakes the pairs of its own frequency.
RECURSIVE InsertFreqDescUnstable(_, _)
InsertFreqDescUnstable(s, p) ==
    IF s = <<>> THEN <<p>>
    ELSE IF Head(s)[2] > p[2] THEN <<Head(s)>> \o InsertFreqDescUnstable(Tail(s), p)
    ELSE <<p>> \o s

\* One step of list.sort(key=lambda tup: tup[1], reverse=True): p goes behind
\* every pair whose frequency is >= its own (reverse keeps the sort stable).
RECURSIVE InsertFreqDesc(_, _)
InsertFreqDesc(s, p) ==
    IF s = <<>> THEN <<p>>
    ELSE IF Head(s)[2] >= p[2] THEN <<Head(s)>> \o InsertFreqDesc(Tail(s), p)
    ELSE <<p>> \o s

\* words_and_frequencies.sort(key=lambda tup: tup[1], reverse=True)
RECURSIVE SortByFreqReverse(_)
SortByFreqReverse(s) ==
    IF s = <<>> THEN <<>>
    ELSE InsertFreqDesc(SortByFreqReverse(Front(s)), Last(s))

\* Lines 80-82.
WordsAndFrequencies(c) == SortByFreqReverse(ItemsByWord(c, DOMAIN c))

\* Lines 72-75: {tok: i for i, tok in enumerate(['<unk>'] + specials)}; a
\* token that occurs twice keeps its last index.
PrefixStoi(sp) ==
    LET p == Prefix(sp)
    IN  [t \in Range(p) |->
            (CHOOSE i \in 1..Len(p) :
                p[i] = t /\ \A j \in 1..Len(p) : p[j] = t => j <= i) - 1]

\* Line 78.
\* An off-by-one in the limit: one token too many is let in.
EffectiveMaxSizeOffByOne(ms, sp) ==
    IF ms = None THEN None ELSE Some(ms[1] + Len(Prefix(sp)) + 1)

\* Line 78.
EffectiveMaxSize(ms, sp) ==
    IF ms = None THEN None ELSE Some(ms[1] + Len(Prefix(sp)))

\* self.stoi[word] = index on the defaultdict.
StoiSet(st, w, i) == [t \in DOMAIN st \cup {w} |-> IF t = w THEN i ELSE st[t]]

\* Lines 84-88, the loop with its break.  v is [itos, stoi].
RECURSIVE AppendWords(_, _, _, _)
AppendWords(v, wf, minf, maxs) ==
    IF wf = <<>> THEN v
    ELSE IF Head(wf)[2] < minf \/ (maxs # None /\ Len(v.itos) = maxs[1]) THEN v
    ELSE LET it == Append(v.itos, Head(wf)[1])
         IN  AppendWords([itos |-> it, stoi |-> StoiSet(v.stoi, Head(wf)[1], Len(it) - 1)],
                         Tail(wf), minf, maxs)

\* Vocab.__init__ (vectors=None), lines 68-88.
BuildVocab(c, ms, mf, sp) ==
    LET minf == Max(mf, 1)
        c1 == CounterUpdate(c, Prefix(sp))
        c2 == CounterSubtractOwn(c1, Prefix(sp))
    IN  AppendWords([itos |-> Prefix(sp), stoi |-> PrefixStoi(sp)],
                    WordsAndFrequencies(c2), minf, EffectiveMaxSize(ms, sp))

\* Vocab.extend's loop, lines 110-113.
RECURSIVE ExtendWords(_, _)
ExtendWords(v, words) ==
    IF words = <<>> THEN v
    ELSE IF Head(words) \notin DOMAIN v.stoi
         THEN LET it == Append(v.itos, Head(words))
              IN  ExtendWords([itos |-> it,
                               stoi |-> StoiSet(v.stoi, Head(words), Len(it) - 1)],
                              Tail(words))
         ELSE ExtendWords(v, Tail(words))

\* defaultdict.__getitem__: a missing key is given the factory's value and kept.
StoiLookup(st, tok) ==
    IF tok \in DOMAIN st THEN st ELSE StoiSet(st, tok, DefaultUnkIndex)

\* --- inputs of the Vocab specification ---
MaxCount == 2
MaxSize == 2
MaxExtends == 1

CounterTokens == {"a", "b", "c", "d"}

\* The caller's Counter: a key with count 0 stands for a missing key as well
\* (both read as 0, and neither reaches min_freq >= 1).
Counters == [CounterTokens -> 0..MaxCount]

SpecialsChoices ==
    {<<>>, <<"<pad>">>, <<"a">>, <<"<pad>", "a">>, <<"a", "<pad>">>,
     <<"<unk>">>, <<"a", "a">>}

LookupTokens == {"a", "zz"}

\* itos of the other Vocab handed to extend.
OtherItos == {<<"<unk>", "<pad>", "zz", "a">>, <<"<unk>", "c", "b">>}

IdleVocab ==
    /\ counter = <<>>
    /\ max_size = None
    /\ min_freq = 1
    /\ specials = <<>>
    /\ itos = <<>>
    /\ stoi = <<>>
    /\ nExtend = 0

IdleLoad ==
    /\ files = <<>>
    /\ artifacts = <<>>
    /\ outcome = <<>>

IdleSearch ==
    /\ result = <<>>
    /\ script = <<>>

InitVocab ==
    /\ counter \in Counters
    /\ max_size \in {None} \cup {Some(n) : n \in -1..MaxSize}
    /\ min_freq \in 0..MaxCount
    /\ specials \in SpecialsChoices
    /\ LET v == BuildVocab(counter, max_size, min_freq, specials)
       IN  itos = v.itos /\ stoi = v.stoi
    /\ nExtend = 0
    /\ IdleLoad
    /\ glove = None
    /\ IdleSearch

\* vocab.stoi[tok]
Lookup(tok) ==
    /\ stoi' = StoiLookup(stoi, tok)
    /\ UNCHANGED <<counter, max_size, min_freq, specials, itos, nExtend>>
    /\ UNCHANGED <<loadVars, glove, searchVars>>

\* vocab.extend(v, sort), lines 108-113.
Extend(other, sort) ==
    /\ nExtend < MaxExtends
    /\ LET words == IF sort THEN SortedTokens(other) ELSE other
           v == ExtendWords([itos |-> itos, stoi |-> stoi], words)
       IN  itos' = v.itos /\ stoi' = v.stoi
    /\ nExtend' = nExtend + 1
    /\ UNCHANGED <<counter, max_size, min_freq, specials>>
    /\ UNCHANGED <<loadVars, glove, searchVars>>

DoLookup == \E tok \in LookupTokens : Lookup(tok)

DoExtend == \E other \in OtherItos, sort \in BOOLEAN : Extend(other, sort)

NextVocab == DoLookup \/ DoExtend

SpecVocab == InitVocab /\ [][NextVocab]_vars

\* The builds whose specials are pairwise different and do not hold '<unk>'.
InitVocabDistinct ==
    /\ InitVocab
    /\ UNK \notin Range(specials)
    /\ Cardinality(Range(specials)) = Len(specials)

SpecVocabDistinct == InitVocabDistinct /\ [][NextVocab]_vars

(***************************************************************************)
(* class Vectors and class GloVe                                           *)
(*                                                                         *)
(* A line of a source file is [word, entries, utf8]: the text before the   *)
(* first " ", the fields behind it, and whether the line's bytes decode as *)
(* UTF-8.  Source files are keyed by name alone; the cache artifacts by    *)
(* <<cache directory, name>> (path_pt, lines 200-202).                     *)
(***************************************************************************)
\* Line 228: the path that is opened, whatever `name` and `cache` are.
HardPath == "glove.840B.300d.txt"

\* Line 294: 'glove.{}.{}d.txt'.format(name, str(dim)) for the two corpora used.
GloVeFileName(name, dim) ==
    CASE name = "840B" /\ dim = 300 -> "glove.840B.300d.txt"
      [] name = "6B" /\ dim = 50 -> "glove.6B.50d.txt"

\* float(x) on the field strings that occur.
FloatOf == [x \in {"1", "2", "3"} |-> CASE x = "1" -> 1 [] x = "2" -> 2 [] x = "3" -> 3]

\* Lines 231-242: the file is read as text, and as bytes (binary_lines) when
\* that raises, which it does when some line is not UTF-8.
BinaryLines(lines) == \E i \in 1..Len(lines) : ~lines[i].utf8

\* The parser's state: itos, the flat array of doubles, dim, and whether an
\* exception has ended the loop (failedAt is the number of the line raising).
ParseStart == [itos |-> <<>>, vectors |-> <<>>, dim |-> None, failedAt |-> 0]

\* Line 255: continue.
SkipLineKeepsWord(st, line) == [st EXCEPT !.itos = Append(@, line.word)]

SkipLine(st, line) == st

\* Lines 269-270: vectors.extend(float(x) for x in entries); itos.append(word).
AppendRow(st, line) ==
    [st EXCEPT !.vectors = @ \o [i \in 1..Len(line.entries) |-> FloatOf[line.entries[i]]],
               !.itos = Append(@, line.word)]

\* Lines 245-270, one pass of the loop body for line number i.
\* In binary mode line.rstrip() is a bytes object and " " a text string
\* (unicode_literals, line 1): bytes.split(str) raises TypeError on Python 3,
\* the interpreter of this script (it reads words with input(), line 335).
\* Lines 262-268 are therefore never reached with binary_lines set.
ParseLine(st, line, i, binary) ==
    IF binary THEN [st EXCEPT !.failedAt = i]
    ELSE IF st.dim = None /\ Len(line.entries) > 1
         THEN AppendRow([st EXCEPT !.dim = Some(Len(line.entries))], line)
    ELSE IF Len(line.entries) = 1 THEN SkipLine(st, line)
    ELSE IF st.dim # Some(Len(line.entries)) THEN [st EXCEPT !.failedAt = i]
    ELSE AppendRow(st, line)

\* The loop of line 245 over lines[i..]; an exception leaves it.
RECURSIVE ParseLoop(_, _, _, _)
ParseLoop(st, lines, i, binary) ==
    IF i > Len(lines) \/ st.failedAt # 0 THEN st
    ELSE ParseLoop(ParseLine(st, lines[i], i, binary), lines, i + 1, binary)

\* Line 273: {word: i for i, word in enumerate(itos)}; the last row of a word wins.
StoiOf(it) ==
    [w \in Range(it) |->
        (CHOOSE i \in 1..Len(it) : it[i] = w /\ \A j \in 1..Len(it) : it[j] = w => j <= i) - 1]

\* Line 274: torch.Tensor(vectors).view(-1, dim), as the sequence of its rows.
View(flat, dim) ==
    [r \in 1..(Len(flat) \div dim) |-> SubSeq(flat, (r - 1) * dim + 1, r * dim)]

\* Lines 227-276: the parse of a file (None when it does not exist).  The
\* result is [ok, failedAt, table]; ok is FALSE when an exception left the
\* method: open() of a missing file, the loop's exception, or view(-1, None)
\* when no line set dim.
ParseFile(file) ==
    IF file = None THEN [ok |-> FALSE, failedAt |-> 0, table |-> None]
    ELSE LET lines == file[1]
             st == ParseLoop(ParseStart, lines, 1, BinaryLines(lines))
         IN  IF st.failedAt # 0 \/ st.dim = None
             THEN [ok |-> FALSE, failedAt |-> st.failedAt, table |-> None]
             ELSE [ok |-> TRUE, failedAt |-> 0,
                   table |-> Some([itos |-> st.itos, stoi |-> StoiOf(st.itos),
                                   vectors |-> View(st.vectors, st.dim[1]),
                                   dim |-> st.dim[1]])]

\* Line 278: the tuple torch.save writes.
SavedTuple(t) == <<t.itos, t.stoi, t.vectors, t.dim>>

\* Line 281: self.itos, self.stoi, self.vectors, self.dim = torch.load(path_pt)
LoadedTable(tup) == [itos |-> tup[1], stoi |-> tup[2], vectors |-> tup[3], dim |-> tup[4]]

\* Line 228 again: the name of the file Vectors.cache opens for (name, cache).
SourcePath(name, cache) == HardPath

\* Vectors.cache(name, cache), lines 199-281, on the file system (fs, arts):
\* [ok, kind, read, failedAt, table, arts].
CacheCall(fs, arts, name, cache) ==
    IF arts[<<cache, name>>] = None
    THEN LET src == SourcePath(name, cache)
             p == ParseFile(fs[src])
         IN  [ok |-> p.ok, kind |-> IF p.ok THEN "parsed" ELSE "error", read |-> src,
              failedAt |-> p.failedAt, table |-> p.table,
              arts |-> IF p.ok
                       THEN [arts EXCEPT ![<<cache, name>>] = Some(SavedTuple(p.table[1]))]
                       ELSE arts]
    ELSE [ok |-> TRUE, kind |-> "cached", read |-> "", failedAt |-> 0,
          table |-> Some(LoadedTable(arts[<<cache, name>>][1])), arts |-> arts]

\* --- inputs of the loader specification ---
MaxLines == 3

SourceNames == {"glove.840B.300d.txt", "glove.6B.50d.txt"}

CacheDirs == {".vector_cache", "cache2"}

GloVeArgs == {<<"840B", 300>>, <<"6B", 50>>}

LinePool ==
    {[word |-> "b", entries |-> <<"2">>, utf8 |-> TRUE],
     [word |-> "a", entries |-> <<"1", "2">>, utf8 |-> TRUE],
     [word |-> "b", entries |-> <<"2", "1">>, utf8 |-> TRUE],
     [word |-> "a", entries |-> <<"1", "2", "3">>, utf8 |-> TRUE],
     [word |-> "c", entries |-> <<>>, utf8 |-> TRUE],
     [word |-> "b", entries |-> <<"1", "2">>, utf8 |-> FALSE]}

\* What the file at HardPath may hold.
FileContents == {None} \cup {Some(ls) : ls \in SeqsOf(LinePool, 0, MaxLines)}

\* What a file of another name may hold (the code never opens it).
OtherContents ==
    {None, Some(<<[word |-> "b", entries |-> <<"2", "1">>, utf8 |-> TRUE]>>)}

NoOutcome ==
    [ctor |-> "", name |-> "", cache |-> "", calls |-> <<>>, read |-> "",
     failedAt |-> 0, ok |-> FALSE]

InitLoad ==
    /\ files \in {f \in [SourceNames -> FileContents] :
                    \A n \in SourceNames \ {HardPath} : f[n] \in OtherContents}
    /\ artifacts = [k \in CacheDirs \X SourceNames |-> None]
    /\ glove = None
    /\ outcome = NoOutcome
    /\ IdleVocab
    /\ IdleSearch

\* Vectors(name, cache=cache), lines 180-191.
NewVectors(name, cache) ==
    LET r == CacheCall(files, artifacts, name, cache)
    IN  /\ artifacts' = r.arts
        /\ glove' = r.table
        /\ outcome' = [ctor |-> "Vectors", name |-> name, cache |-> cache,
                       calls |-> <<r.kind>>, read |-> r.read,
                       failedAt |-> r.failedAt, ok |-> r.ok]
        /\ UNCHANGED <<files, vocabVars, searchVars>>

\* GloVe(name, dim, cache=cache), lines 292-296: Vectors.__init__ runs twice.
NewGloVe(gname, gdim, cache) ==
    LET name == GloVeFileName(gname, gdim)
        r1 == CacheCall(files, artifacts, name, cache)
        r2 == CacheCall(files, r1.arts, name, cache)
    IN  /\ artifacts' = IF r1.ok THEN r2.arts ELSE r1.arts
        /\ glove' = IF r1.ok THEN r2.table ELSE None
        /\ outcome' = [ctor |-> "GloVe", name |-> name, cache |-> cache,
                       calls |-> IF r1.ok THEN <<r1.kind, r2.kind>> ELSE <<r1.kind>>,
                       read |-> r1.read, failedAt |-> r1.failedAt,
                       ok |-> r1.ok /\ r2.ok]
        /\ UNCHANGED <<files, vocabVars, searchVars>>

DoNewVectors == \E name \in SourceNames, cache \in CacheDirs : NewVectors(name, cache)

DoNewGloVe == \E a \in GloVeArgs, cache \in CacheDirs : NewGloVe(a[1], a[2], cache)

NextLoad == DoNewVectors \/ DoNewGloVe

SpecLoad == InitLoad /\ [][NextLoad]_vars

(***************************************************************************)
(* Module level: get_word, closest and the script of lines 331-352, on the *)
(* global table glove.                                                     *)
(*                                                                         *)
(* Table rows hold integers.  A computed tensor is [num, den], the vector  *)
(* num / den, so that the division of line 345 is exact.  A distance is    *)
(* kept as den^2 times the squared Euclidean distance: torch.dist is the   *)
(* square root of it over den, which orders and equates the rows of one    *)
(* call alike.                                                             *)
(***************************************************************************)
\* The default of closest's parameter n.
DefaultN == 10

\* A row of the table as a tensor.
Tensor(row) == [num |-> row, den |-> 1]

\* Equality of two tensors' values.
TensorEq(x, y) ==
    /\ Len(x.num) = Len(y.num)
    /\ \A i \in 1..Len(x.num) : x.num[i] * y.den = y.num[i] * x.den

\* tensor * k
Scale(x, k) == [x EXCEPT !.num = [i \in 1..Len(x.num) |-> x.num[i] * k]]

\* tensor + tensor of one denominator (both are sums of table rows).
Plus(x, y) == [x EXCEPT !.num = [i \in 1..Len(x.num) |-> x.num[i] + y.num[i]]]

\* tensor / k
Divide(x, k) == [x EXCEPT !.den = @ * k]

RECURSIVE SumSq(_)
SumSq(s) == IF s = <<>> THEN 0 ELSE Head(s) * Head(s) + SumSq(Tail(s))

\* torch.dist(vec, row), as vec.den^2 times its square.
Dist(vec, row) == SumSq([i \in 1..Len(row) |-> vec.num[i] - vec.den * row[i]])

\* str.lower on the words that occur.
Lower(w) == IF w = "A" THEN "a" ELSE w

\* get_word(word), line 318, on table t (a KeyError when word is no key).
GetWord(t, word) == t.vectors[t.stoi[word] + 1]

\* A sort that puts a pair in front of the pairs of its own distance.
RECURSIVE InsertByDistUnstable(_, _)
InsertByDistUnstable(s, p) ==
    IF s = <<>> THEN <<p>>
    ELSE IF Head(s)[2] < p[2] THEN <<Head(s)>> \o InsertByDistUnstable(Tail(s), p)
    ELSE <<p>> \o s

\* One step of sorted(all_dists, key=lambda t: t[1]): p goes behind every
\* pair whose distance is <= its own (the sort is stable).
RECURSIVE InsertByDist(_, _)
InsertByDist(s, p) ==
    IF s = <<>> THEN <<p>>
    ELSE IF Head(s)[2] <= p[2] THEN <<Head(s)>> \o InsertByDist(Tail(s), p)
    ELSE <<p>> \o s

RECURSIVE SortedByDist(_)
SortedByDist(s) ==
    IF s = <<>> THEN <<>>
    ELSE InsertByDist(SortedByDist(Front(s)), Last(s))

\* closest(vec, n), lines 320-325, for n >= 0: pairs <<word, distance>>.
Closest(t, vec, n) ==
    LET all_dists == [i \in 1..Len(t.itos) |->
                         <<t.itos[i], Dist(vec, GetWord(t, t.itos[i]))>>]
        sorted == SortedByDist(all_dists)
    IN  SubSeq(sorted, 1, Min(n, Len(sorted)))

\* Lines 341-343: the sum over unique_words (a list in some order) of
\* get_word(lower(word)) * words.count(word).
RECURSIVE WeightedSum(_, _, _)
WeightedSum(t, unique_words, words) ==
    IF Len(unique_words) = 1
    THEN Scale(Tensor(GetWord(t, Lower(unique_words[1]))), Count(words, unique_words[1]))
    ELSE Plus(WeightedSum(t, Front(unique_words), words),
              Scale(Tensor(GetWord(t, Lower(Last(unique_words)))),
                    Count(words, Last(unique_words))))

\* A mean over the distinct words instead of over the occurrences.
AggregateOverDistinct(t, unique_words, words) ==
    Divide(WeightedSum(t, unique_words, words), Len(unique_words))

\* Line 345: the argument of closest, sum / len(words).
Aggregate(t, unique_words, words) ==
    Divide(WeightedSum(t, unique_words, words), Len(words))

\* Lines 348-350: the sets intersected are sets of the <<word, distance>>
\* pairs closest returns (pairs compare by word and by distance).
RECURSIVE Intersection(_, _, _)
Intersection(t, words, i) ==
    IF i = 0 THEN Range(Closest(t, Tensor(GetWord(t, Lower(words[1]))), DefaultN))
    ELSE Intersection(t, words, i - 1)
             \cap Range(Closest(t, Tensor(GetWord(t, Lower(words[i]))), DefaultN))

\* --- inputs of the search specification ---
MaxRows == 3
MaxN == 3
MaxWords == 3

RowPool ==
    {<<"a", <<0, 0>>>>, <<"a", <<2, 0>>>>, <<"A", <<0, 2>>>>,
     <<"b", <<1, 1>>>>, <<"b", <<0, 0>>>>}

QueryPool == {r[2] : r \in RowPool} \cup {<<1, 0>>}

InputWords == {"a", "A", "b"}

\* The table a parse of the rows yields (lines 272-276).
TableOfRows(rows) ==
    [itos |-> [i \in 1..Len(rows) |-> rows[i][1]],
     stoi |-> StoiOf([i \in 1..Len(rows) |-> rows[i][1]]),
     vectors |-> [i \in 1..Len(rows) |-> rows[i][2]],
     dim |-> 2]

NoResult == [vec |-> <<>>, n |-> 0, out |-> <<>>, called |-> FALSE]

NoScript ==
    [words |-> <<>>, ok |-> FALSE, agg |-> Tensor(<<>>), x |-> <<>>,
     intersection |-> {}, ran |-> FALSE]

InitSearch ==
    /\ glove \in {Some(TableOfRows(rows)) : rows \in SeqsOf(RowPool, 1, MaxRows)}
    /\ result = NoResult
    /\ script = NoScript
    /\ IdleVocab
    /\ IdleLoad

\* The search has not been used yet.  The table is never written and closest
\* is a pure function of it, so one use per behaviour shows every result; the
\* script itself runs once per process.
Fresh == ~result.called /\ ~script.ran

\* A call closest(vec, n).
CallClosest(vec, n) ==
    /\ result' = [vec |-> vec, n |-> n, out |-> Closest(glove[1], Tensor(vec), n),
                  called |-> TRUE]
    /\ script' = NoScript
    /\ UNCHANGED <<glove, vocabVars, loadVars>>

\* The script of lines 331-352 on the target words typed in; unique_words is
\* list(set(words)) in the order the set happens to yield.  It ends in an
\* exception for no words (IndexError) or a word whose lower case is no key
\* of glove.stoi (KeyError).
RunScript(words, unique_words) ==
    /\ Range(unique_words) = Range(words)
    /\ Len(unique_words) = Cardinality(Range(words))
    /\ result' = NoResult
    /\ IF words = <<>> \/ \E w \in Range(words) : Lower(w) \notin DOMAIN glove[1].stoi
       THEN script' = [NoScript EXCEPT !.words = words, !.ran = TRUE]
       ELSE LET agg == Aggregate(glove[1], unique_words, words)
            IN  script' = [words |-> words, ok |-> TRUE, agg |-> agg,
                           x |-> Closest(glove[1], agg, DefaultN),
                           intersection |-> Intersection(glove[1], words, Len(words)),
                           ran |-> TRUE]
    /\ UNCHANGED <<glove, vocabVars, loadVars>>

\* The orders list(set(words)) may have.
Orderings(S) == {u \in SeqsOf(S, Cardinality(S), Cardinality(S)) : Range(u) = S}

DoCallClosest ==
    /\ Fresh
    /\ \E vec \in QueryPool, n \in 0..MaxN : CallClosest(vec, n)

DoRunScript ==
    /\ Fresh
    /\ \E words \in SeqsOf(InputWords, 0, MaxWords) :
           \E unique_words \in Orderings(Range(words)) : RunScript(words, unique_words)

NextSearch == DoCallClosest \/ DoRunScript

SpecSearch == InitSearch /\ [][NextSearch]_vars

(***************************************************************************)
(* Claims about the search (checked under SpecSearch).                     *)
(***************************************************************************)
\* The distance closest computes for row i of the table.
RowDist(vec, i) == Dist(Tensor(vec), GetWord(glove[1], glove[1].itos[i]))

\* Row i ranks before row j: nearer, or as near and earlier in the table.
RanksBefore(vec, i, j) ==
    \/ RowDist(vec, i) < RowDist(vec, j)
    \/ RowDist(vec, i) = RowDist(vec, j) /\ i < j

RECURSIVE SumOverWords(_, _, _, _)
\* The sum over the words in S of vector(w) * count(w), for row-valued vector.
SumOverWords(S, vector(_), count(_), zero) ==
    IF S = {} THEN zero
    ELSE LET w == CHOOSE x \in S : TRUE
         IN  Plus(Scale(Tensor(vector(w)), count(w)),
                  SumOverWords(S \ {w}, vector, count, zero))

ZeroTensor == Tensor(<<0, 0>>)

\* C7 as stated: for a non-empty list of words that are all in the table the
\* aggregate is the sum over the distinct words of (the word's vector * its
\* count) over the number of occurrences; with all counts 1, the mean.
C7_AggregateOfWordVectors ==
    (/\ script.ran
     /\ script.words # <<>>
     /\ \A w \in Range(script.words) : w \in DOMAIN glove[1].stoi) =>
        LET t == glove[1]
            ws == script.words
            vec(w) == GetWord(t, w)
            cnt(w) == Count(ws, w)
            one(w) == 1
        IN  /\ script.ok
            /\ TensorEq(script.agg,
                        Divide(SumOverWords(Range(ws), vec, cnt, ZeroTensor), Len(ws)))
            /\ (\A w \in Range(ws) : cnt(w) = 1) =>
                   TensorEq(script.agg,
                            Divide(SumOverWords(Range(ws), vec, one, ZeroTensor),
                                   Cardinality(Range(ws))))

\* C7 amended: for a non-empty list of words whose lower-cased forms are all
\* in the table the aggregate is the sum over the distinct words of (the
\* vector of the lower-cased word * the word's count) over the number of
\* occurrences; with all counts 1, the mean of those vectors.
C7_AggregateOfLoweredWordVectors ==
    (/\ script.ran
     /\ script.words # <<>>
     /\ \A w \in Range(script.words) : Lower(w) \in DOMAIN glove[1].stoi) =>
        LET t == glove[1]
            ws == script.words
            vec(w) == GetWord(t, Lower(w))
            cnt(w) == Count(ws, w)
            one(w) == 1
        IN  /\ script.ok
            /\ script.agg.den = Len(ws)
            /\ script.agg.num = SumOverWords(Range(ws), vec, cnt, ZeroTensor).num
            /\ (\A w \in Range(ws) : cnt(w) = 1) =>
                   TensorEq(script.agg,
                            [num |-> SumOverWords(Range(ws), vec, one, ZeroTensor).num,
                             den |-> Cardinality(Range(ws))])

\* A run on a word typed twice and another word, with different vectors.
C7_Witness ==
    /\ script.ran /\ script.ok
    /\ Len(script.words) > Cardinality(Range(script.words))
    /\ Cardinality({GetWord(glove[1], Lower(w)) : w \in Range(script.words)}) > 1

\* The tokens among the n nearest neighbours of the (lower-cased) word w.
NeighbourTokens(w) ==
    {p[1] : p \in Range(Closest(glove[1], Tensor(GetWord(glove[1], Lower(w))), DefaultN))}

\* C8: the reported intersection is the set of the tokens that are among the
\* n nearest neighbours of every query token, and nothing else.
C8_IntersectionOfNeighbourTokens ==
    (script.ran /\ script.ok) =>
        {p[1] : p \in script.intersection} =
            {tok \in Range(glove[1].itos) :
                \A w \in Range(script.words) : tok \in NeighbourTokens(w)}

(***************************************************************************)
(* Claims about class Vectors / GloVe (checked under SpecLoad).            *)
(***************************************************************************)
\* The last construction ran the parser.
ParseAttempted == outcome.calls # <<>> /\ outcome.calls[1] \in {"parsed", "error"}

\* The last construction parsed a source successfully; glove is its table.
ParsedNow == ParseAttempted /\ outcome.ok

\* The lines of the file the last construction read (<<>> for a missing file).
LinesRead == IF files[outcome.read] = None THEN <<>> ELSE files[outcome.read][1]

IsHeader(l) == Len(l.entries) = 1

IsKept(l) == ~IsHeader(l) /\ l.utf8

\* The width of the first line with more than one field, 0 if there is none.
FirstWidth(lines) ==
    IF \E i \in 1..Len(lines) : Len(lines[i].entries) > 1
    THEN Len(lines[CHOOSE i \in 1..Len(lines) :
                       /\ Len(lines[i].entries) > 1
                       /\ \A j \in 1..(i - 1) : Len(lines[j].entries) <= 1].entries)
    ELSE 0

TableOfFile(n) == ParseFile(files[n]).table

\* C4: a load of S that finds no artifact for S parses the file named S and
\* writes the artifact keyed by S, and every load of S that finds the
\* artifact returns the tokens, index, vectors and dim of that parse of S's
\* file without parsing again.
C4_CacheHoldsParseOfNamedFile ==
    /\ \A c \in CacheDirs, n \in SourceNames :
           artifacts[<<c, n>>] # None =>
               /\ TableOfFile(n) # None
               /\ artifacts[<<c, n>>][1] = SavedTuple(TableOfFile(n)[1])
    /\ (outcome.ok /\ Last(outcome.calls) = "cached") =>
           glove = TableOfFile(outcome.name)

\* C5: a one-field line is skipped wherever it occurs, without changing dim
\* and without aborting; dim is the width of the first line with more than
\* one field; a line of any other width that differs from the established
\* dim aborts the load: no table, no cache artifact.
C5_HeaderSkippedMismatchAborts ==
    ParseAttempted =>
        LET d == FirstWidth(LinesRead)
        IN  /\ outcome.failedAt # 0 => ~IsHeader(LinesRead[outcome.failedAt])
            /\ outcome.ok =>
                   /\ glove[1].dim = d
                   /\ Len(glove[1].itos) =
                          Cardinality({i \in 1..Len(LinesRead) : ~IsHeader(LinesRead[i])})
            /\ (d # 0 /\ \E i \in 1..Len(LinesRead) :
                             ~IsHeader(LinesRead[i]) /\ Len(LinesRead[i].entries) # d) =>
                   /\ ~outcome.ok
                   /\ glove = None
                   /\ artifacts[<<outcome.cache, outcome.name>>] = None

\* C10: after a successful parse the token sequence has no duplicate and
\* index_of is its exact inverse.
C10_TokensUniqueIndexInverse ==
    ParsedNow =>
        LET t == glove[1]
        IN  /\ \A i, j \in 1..Len(t.itos) : t.itos[i] = t.itos[j] => i = j
            /\ \A i \in 1..Len(t.itos) : t.stoi[t.itos[i]] = i - 1
            /\ Cardinality(DOMAIN t.stoi) = Len(t.itos)

(***************************************************************************)
(* Claims about class Vocab (checked under SpecVocab).                     *)
(***************************************************************************)
\* The part of itos behind the prefix.
ItosRest == SubSeq(itos, Len(Prefix(specials)) + 1, Len(itos))

PrefixIntact ==
    /\ Len(itos) >= Len(Prefix(specials))
    /\ SubSeq(itos, 1, Len(Prefix(specials))) = Prefix(specials)

\* C1: with max_size unset, a freshly built Vocab has itos = '<unk>', the
\* specials in the given order, then exactly the tokens outside that prefix
\* whose count is >= max(min_freq, 1), by count descending and, for equal
\* counts, by token ascending; no prefix token re-appears behind the prefix.
C1_ItosOrder ==
    (max_size = None /\ nExtend = 0) =>
        /\ PrefixIntact
        /\ Range(ItosRest) =
               {t \in DOMAIN counter \ Range(Prefix(specials)) :
                    counter[t] >= Max(min_freq, 1)}
        /\ \A i, j \in 1..Len(ItosRest) :
               i < j =>
                   \/ counter[ItosRest[i]] > counter[ItosRest[j]]
                   \/ /\ counter[ItosRest[i]] = counter[ItosRest[j]]
                      /\ LexRank[ItosRest[i]] < LexRank[ItosRest[j]]

\* A build without max_size in which a prefix token has a count that would
\* qualify it, two kept tokens tie on their count and a counted token is cut
\* by min_freq.
C1_Witness ==
    /\ max_size = None /\ nExtend = 0
    /\ \E t \in Range(Prefix(specials)) \cap DOMAIN counter :
           counter[t] >= Max(min_freq, 1)
    /\ \E i, j \in 1..Len(ItosRest) :
           i < j /\ counter[ItosRest[i]] = counter[ItosRest[j]]
    /\ \E t \in DOMAIN counter \ Range(itos) : counter[t] > 0
    /\ Len(specials) = 2

\* C2: after construction and any lookups and extend calls,
\* len(itos) == len(stoi) and stoi[itos[i]] == i for every index i.
C2_StoiInverseOfItos ==
    /\ Len(itos) = Cardinality(DOMAIN stoi)
    /\ \A i \in 1..Len(itos) : stoi[itos[i]] = i - 1

====
